---- MODULE Spec2Model ----
(***************************************************************************)
(* The catalog mirror of datafusion_iceberg_catalog_rest (mirror.rs): a    *)
(* DashMap from the string form of a qualified name to a Node, filled by   *)
(* Mirror::new from the remote catalog and then changed by register_table  *)
(* and deregister_table.                                                   *)
(***************************************************************************)
EXTENDS Naturals, Sequences, FiniteSets, TLC

VARIABLES
    storage,      \* Mirror.storage
    remoteCalls,  \* the calls carried out on Mirror.catalog so far
    last,         \* the call of the mirror that returned last, with its result
    prev,         \* the call that returned before it
    constructed,  \* the store as Mirror::new returned it
    loader,       \* where Mirror::new is, with its local variables
    pc,           \* where each concurrent thread is in its call
    call          \* the call each concurrent thread makes

vars == <<storage, remoteCalls, last, prev, constructed, loader, pc, call>>

(***************************************************************************)
(* Bounds of the model.                                                    *)
(***************************************************************************)
\* number of distinct metadata locations an iceberg table handle may carry
NumLocations == 2
\* number of threads that call the mirror concurrently
NumProcs == 2
\* number of tables the remote catalog lists in one namespace
MaxTables == 2

(***************************************************************************)
(* Qualified names.  A Namespace is a sequence of levels, an Identifier a  *)
(* namespace and a name; the DashMap is keyed by their Display form.       *)
(***************************************************************************)
NamespaceUniverse == {<<"a">>, <<"a", "b">>}

IdentifierUniverse ==
    { [namespace |-> <<"a">>, name |-> "t"],
      [namespace |-> <<"a">>, name |-> "u"],
      [namespace |-> <<"a">>, name |-> "b"],
      [namespace |-> <<"a", "b">>, name |-> "t"] }

RECURSIVE NamespaceToString(_)
NamespaceToString(levels) ==
    IF Len(levels) = 0 THEN ""
    ELSE IF Len(levels) = 1 THEN levels[1]
    ELSE levels[1] \o "." \o NamespaceToString(Tail(levels))

IdentifierToString(identifier) ==
    NamespaceToString(identifier.namespace) \o "." \o identifier.name

\* Identifier::parse on a key the mirror wrote: the identifier it renders.
IdentifierParse(x) ==
    CHOOSE identifier \in IdentifierUniverse : IdentifierToString(identifier) = x

Keys ==
    { NamespaceToString(n) : n \in NamespaceUniverse }
        \cup { IdentifierToString(i) : i \in IdentifierUniverse }

(***************************************************************************)
(* Table handles (Arc<dyn TableProvider>).  Only a DataFusionTable has a   *)
(* metadata location; any other provider fails the downcast.               *)
(***************************************************************************)
DataFusionTables == { [kind |-> "DataFusionTable", location |-> l] : l \in 1..NumLocations }

OtherProvider == [kind |-> "Other", location |-> 0]

TableProviders == DataFusionTables \cup {OtherProvider}

IsDataFusionTable(table) == table.kind = "DataFusionTable"

MetadataLocation(table) == table.location

(***************************************************************************)
(* Nodes of the store.                                                     *)
(***************************************************************************)
Absent == [node |-> "Absent"]

NamespaceNode(names) == [node |-> "Namespace", names |-> names]

RelationNode(table) == [node |-> "Relation", table |-> table]

IsNamespace(n) == n.node = "Namespace"

IsRelation(n) == n.node = "Relation"

\* DashMap::insert: the value at the key is replaced.
StorageInsert(st, key, node) == [st EXCEPT ![key] = node]

\* DashMap::remove
StorageRemove(st, key) == [st EXCEPT ![key] = Absent]

EmptyStorage == [k \in Keys |-> Absent]

(***************************************************************************)
(* Results.  Every error of the mirror is DataFusionError::Internal with   *)
(* a message; the message tells the error kinds apart.                     *)
(***************************************************************************)
Ok(v) == [tag |-> "Ok", value |-> v]

Err(msg) == [tag |-> "Err", value |-> msg]

None == [some |-> FALSE]

Some(v) == [some |-> TRUE, value |-> v]

NamespaceNotFound == "Namespace doesn't exist"

NamespaceNotFoundOnList == "Namespace not found."

NotANamespace == "Cannot list tables of a table."

TableNotFound == "Can't deregister table, tables doesn't exist."

NotATable == "Can't deregister table, identifier refers to a namespace."

NotIceberg == "Table is not an iceberg datafusion table."

(***************************************************************************)
(* The remote catalog.  Its calls are asynchronous; remoteCalls is the set *)
(* of calls that have actually been carried out on it.                     *)
(***************************************************************************)
ListNamespacesCall == [call |-> "list_namespaces"]

ListTablesCall(namespace) == [call |-> "list_tables", namespace |-> namespace]

LoadTableCall(identifier) == [call |-> "load_table", identifier |-> identifier]

RegisterTableCall(identifier, location) ==
    [call |-> "register_table", identifier |-> identifier, location |-> location]

DropTableCall(identifier) == [call |-> "drop_table", identifier |-> identifier]

\* contents of the remote catalog when the mirror is constructed
RemoteCatalogs ==
    { [namespaces |-> <<>>,
       tables |-> [n \in NamespaceUniverse |-> <<>>]],
      [namespaces |-> <<(<<"a">>)>>,
       tables |-> [n \in NamespaceUniverse |-> <<>>]],
      [namespaces |-> <<(<<"a">>), (<<"a", "b">>)>>,
       tables |-> [n \in NamespaceUniverse |->
                     IF n = <<"a">> THEN << [namespace |-> <<"a">>, name |-> "t"] >>
                     ELSE IF n = <<"a", "b">>
                          THEN << [namespace |-> <<"a", "b">>, name |-> "t"] >>
                          ELSE <<>>]] }

\* the handle Mirror::new builds from a loaded table
LoadTable(identifier) == [kind |-> "DataFusionTable", location |-> 1]

(***************************************************************************)
(* Mirror::new                                                             *)
(***************************************************************************)
RECURSIVE NewTables(_, _, _)
\* the inner loop: one load_table and two inserts per listed identifier
NewTables(st, namespace_node, tables) ==
    IF Len(tables) = 0 THEN [storage |-> st, namespace_node |-> namespace_node]
    ELSE LET identifier == Head(tables)
         IN  NewTables(StorageInsert(st, IdentifierToString(identifier),
                                     RelationNode(LoadTable(identifier))),
                       namespace_node \cup {IdentifierToString(identifier)},
                       Tail(tables))

RECURSIVE NewNamespaces(_, _, _)
\* the outer loop: the namespace node is inserted after its tables
NewNamespaces(st, catalog, namespaces) ==
    IF Len(namespaces) = 0 THEN st
    ELSE LET namespace == Head(namespaces)
             inner == NewTables(st, {}, catalog.tables[namespace])
         IN  NewNamespaces(StorageInsert(inner.storage, NamespaceToString(namespace),
                                         NamespaceNode(inner.namespace_node)),
                           catalog, Tail(namespaces))

MirrorNew(catalog) == NewNamespaces(EmptyStorage, catalog, catalog.namespaces)

\* the remote calls Mirror::new awaits
MirrorNewCalls(catalog) ==
    {ListNamespacesCall}
        \cup { ListTablesCall(catalog.namespaces[i]) : i \in 1..Len(catalog.namespaces) }
        \cup UNION { { LoadTableCall(catalog.tables[catalog.namespaces[i]][j]) :
                         j \in 1..Len(catalog.tables[catalog.namespaces[i]]) } :
                     i \in 1..Len(catalog.namespaces) }

(***************************************************************************)
(* Mirror::new, one await or insert at a time.  The remote catalog answers *)
(* an awaited call with a value ("ok"), with an error ("err"), or not at   *)
(* all ("never").                                                          *)
(***************************************************************************)
Responses == {"ok", "err", "never"}

CatalogError == "catalog error"

\* sequences of at most n distinct elements of S
RECURSIVE DistinctSeqs(_, _)
DistinctSeqs(S, n) ==
    IF n = 0 THEN {<<>>}
    ELSE LET shorter == DistinctSeqs(S, n - 1)
         IN  shorter \cup
               { Append(qx[1], qx[2]) :
                   qx \in { rx \in shorter \X S :
                              /\ Len(rx[1]) = n - 1
                              /\ \A i \in 1..Len(rx[1]) : rx[1][i] # rx[2] } }

\* every content of the remote catalog within the bounds: the namespaces in
\* any order, and in each namespace tables of that namespace
AllCatalogs ==
    { [namespaces |-> ns, tables |-> ts] :
        ns \in DistinctSeqs(NamespaceUniverse, Cardinality(NamespaceUniverse)),
        ts \in { f \in [NamespaceUniverse ->
                          DistinctSeqs(IdentifierUniverse, MaxTables)] :
                   \A n \in NamespaceUniverse :
                       \A i \in 1..Len(f[n]) : f[n][i].namespace = n } }

\* the loader before its first await
LoaderStart(catalog) ==
    [pc |-> "list_namespaces", catalog |-> catalog, storage |-> EmptyStorage,
     namespaces |-> <<>>, namespace |-> <<>>, namespace_node |-> {},
     tables |-> <<>>, failed |-> {}, result |-> Ok(None)]

\* the loader after Ok(Mirror { storage, catalog })
LoaderReturned(catalog) ==
    [pc |-> "returned", catalog |-> catalog, storage |-> MirrorNew(catalog),
     namespaces |-> <<>>, namespace |-> <<>>, namespace_node |-> {},
     tables |-> <<>>, failed |-> {}, result |-> Ok(Some("Mirror"))]

\* `?` on a failed call: the error is returned, the local DashMap is dropped
NewFail(l, failedCall) ==
    [l EXCEPT !.pc = "returned", !.failed = {failedCall},
              !.result = Err(CatalogError), !.storage = EmptyStorage]

\* an await that never completes
NewPending(l) == [l EXCEPT !.pc = "pending"]

\* a loader whose namespace_node is made once, before the loop
NewNextNamespaceKeepNode(l) ==
    IF Len(l.namespaces) = 0 THEN [l EXCEPT !.pc = "return"]
    ELSE [l EXCEPT !.pc = "list_tables", !.namespace = Head(l.namespaces),
                   !.namespaces = Tail(l.namespaces)]

\* lines 30-31: the head of the loop over the namespaces
NewNextNamespace(l) ==
    IF Len(l.namespaces) = 0 THEN [l EXCEPT !.pc = "return"]
    ELSE [l EXCEPT !.pc = "list_tables", !.namespace = Head(l.namespaces),
                   !.namespaces = Tail(l.namespaces), !.namespace_node = {}]

\* line 37: the head of the loop over the tables
NewNextTable(l) ==
    IF Len(l.tables) = 0 THEN [l EXCEPT !.pc = "insert_namespace"]
    ELSE [l EXCEPT !.pc = "load_table"]

\* lines 25-29
NewOnListNamespaces(l, response) ==
    IF response = "never" THEN NewPending(l)
    ELSE IF response = "err" THEN NewFail(l, ListNamespacesCall)
    ELSE NewNextNamespace([l EXCEPT !.namespaces = l.catalog.namespaces])

\* lines 31-36
NewOnListTables(l, response) ==
    IF response = "never" THEN NewPending(l)
    ELSE IF response = "err" THEN NewFail(l, ListTablesCall(l.namespace))
    ELSE NewNextTable([l EXCEPT !.tables = l.catalog.tables[l.namespace]])

\* a loader that skips a table it cannot load
NewOnLoadTableSkip(l, response) ==
    LET identifier == Head(l.tables)
    IN  IF response = "never" THEN NewPending(l)
        ELSE IF response = "err"
        THEN NewNextTable([l EXCEPT !.tables = Tail(l.tables),
                                    !.failed = {LoadTableCall(identifier)}])
        ELSE NewNextTable(
                 [l EXCEPT !.tables = Tail(l.tables),
                           !.namespace_node = @ \cup {IdentifierToString(identifier)},
                           !.storage = StorageInsert(@, IdentifierToString(identifier),
                                                     RelationNode(LoadTable(identifier)))])

\* lines 38-47
NewOnLoadTable(l, response) ==
    LET identifier == Head(l.tables)
    IN  IF response = "never" THEN NewPending(l)
        ELSE IF response = "err" THEN NewFail(l, LoadTableCall(identifier))
        ELSE NewNextTable(
                 [l EXCEPT !.tables = Tail(l.tables),
                           !.namespace_node = @ \cup {IdentifierToString(identifier)},
                           !.storage = StorageInsert(@, IdentifierToString(identifier),
                                                     RelationNode(LoadTable(identifier)))])

\* line 49
NewOnInsertNamespace(l) ==
    NewNextNamespace(
        [l EXCEPT !.storage = StorageInsert(@, NamespaceToString(l.namespace),
                                            NamespaceNode(l.namespace_node))])

\* line 52
NewOnReturn(l) == [l EXCEPT !.pc = "returned", !.result = Ok(Some("Mirror"))]

(***************************************************************************)
(* The read operations.                                                    *)
(***************************************************************************)
\* The Vec is collected from a HashSet, whose order is unspecified: a set.
TableNames(st, namespace) ==
    LET tables == st[NamespaceToString(namespace)]
    IN  IF tables = Absent THEN Err(NamespaceNotFoundOnList)
        ELSE IF IsRelation(tables) THEN Err(NotANamespace)
        ELSE Ok({ IdentifierParse(x) : x \in tables.names })

SchemaNames(st) ==
    { n \in NamespaceUniverse : IsNamespace(st[NamespaceToString(n)]) }

Table(st, identifier) ==
    LET x == st[IdentifierToString(identifier)]
    IN  IF IsRelation(x) THEN Some(x.table) ELSE None

TableExists(st, identifier) == st[IdentifierToString(identifier)] # Absent

\* The reads as calls: the store they leave, the catalog calls they make and
\* what they return.  They take &self and only get, iter and contains_key.
ReadTableNames(st, namespace) ==
    [storage |-> st, calls |-> {}, result |-> TableNames(st, namespace)]

\* the whole iteration over a store that no other thread changes meanwhile
ReadSchemaNames(st) ==
    [storage |-> st, calls |-> {}, result |-> Ok(SchemaNames(st))]

\* lines 76-80 on the entries the iterator finds under keys: the keys of the
\* Namespace nodes, split into namespaces
SchemaNamesIn(st, keys) ==
    { n \in SchemaNames(st) : NamespaceToString(n) \in keys }

\* DashMap::iter goes through the map shard by shard, holding one shard's
\* read lock at a time.  One advance of the iterator: the entry under key is
\* read in the store as it is now and added to names, the namespaces
\* collected so far.  Which keys share a shard and in which order they come
\* depends on the map's random hasher: here every key may be alone in its shard.
ReadSchemaNamesShard(st, key, names) ==
    [storage |-> st, calls |-> {}, result |-> Ok(names \cup SchemaNamesIn(st, {key}))]

\* a table() that loads a missing table from the remote catalog and keeps it
ReadTableThrough(st, identifier) ==
    IF st[IdentifierToString(identifier)] = Absent
    THEN [storage |-> StorageInsert(st, IdentifierToString(identifier),
                                    RelationNode(LoadTable(identifier))),
          calls |-> {LoadTableCall(identifier)},
          result |-> Some(LoadTable(identifier))]
    ELSE [storage |-> st, calls |-> {}, result |-> Table(st, identifier)]

ReadTable(st, identifier) ==
    [storage |-> st, calls |-> {}, result |-> Table(st, identifier)]

ReadTableExists(st, identifier) ==
    [storage |-> st, calls |-> {}, result |-> TableExists(st, identifier)]

(***************************************************************************)
(* register_table, in its three parts.                                     *)
(***************************************************************************)
\* a register_table that keeps an entry already present at the key
RegisterInsertIfVacant(st, identifier, table) ==
    IF st[IdentifierToString(identifier)] = Absent
    THEN StorageInsert(st, IdentifierToString(identifier), RelationNode(table))
    ELSE st

\* lines 108-109: the relation is inserted first
RegisterInsert(st, identifier, table) ==
    StorageInsert(st, IdentifierToString(identifier), RelationNode(table))

\* a register_table that overwrites the child set instead of adding to it
RegisterNamespaceReplace(st, identifier) ==
    LET parent == NamespaceToString(identifier.namespace)
    IN  IF st[parent] = Absent
        THEN [storage |-> st, result |-> Err(NamespaceNotFound)]
        ELSE IF IsNamespace(st[parent])
        THEN [storage |->
                 [st EXCEPT ![parent] = NamespaceNode({IdentifierToString(identifier)})],
              result |-> Ok(None)]
        ELSE [storage |-> st, result |-> Ok(None)]

\* a register_table that rejects a name its namespace already lists
RegisterNamespaceStrict(st, identifier) ==
    LET parent == NamespaceToString(identifier.namespace)
    IN  IF st[parent] = Absent
        THEN [storage |-> st, result |-> Err(NamespaceNotFound)]
        ELSE IF IsNamespace(st[parent])
        THEN IF IdentifierToString(identifier) \in st[parent].names
             THEN [storage |-> st, result |-> Err("Table already exists")]
             ELSE [storage |->
                      [st EXCEPT ![parent] =
                          NamespaceNode(@.names \cup {IdentifierToString(identifier)})],
                   result |-> Ok(None)]
        ELSE [storage |-> st, result |-> Ok(None)]

\* lines 110-122: get_mut on the parent; the shard lock is held for the update
RegisterNamespace(st, identifier) ==
    LET parent == NamespaceToString(identifier.namespace)
    IN  IF st[parent] = Absent
        THEN [storage |-> st, result |-> Err(NamespaceNotFound)]
        ELSE IF IsNamespace(st[parent])
        THEN [storage |->
                 [st EXCEPT ![parent] =
                     NamespaceNode(@.names \cup {IdentifierToString(identifier)})],
              result |-> Ok(None)]
        ELSE [storage |-> st, result |-> Ok(None)]

\* a pool that is run to completion before the call returns
LocalPoolRun(incoming) ==
    incoming

\* A LocalPool is created in the call and dropped when the call returns.
\* Nothing calls run(), run_until() or try_run_one() on it, so of the tasks
\* spawned on it (incoming) the ones polled before the drop are none.
LocalPoolPolled(incoming) ==
    {}

\* lines 123-144: downcast, spawn on the local pool, return the handle
RegisterSpawn(identifier, table) ==
    IF ~IsDataFusionTable(table)
    THEN [result |-> Err(NotIceberg), incoming |-> {}]
    ELSE [result |-> Ok(Some(table)),
          incoming |-> {RegisterTableCall(identifier, MetadataLocation(table))}]

\* the whole call
RegisterTableOutcome(st, identifier, table) ==
    LET s1 == RegisterInsert(st, identifier, table)
        r2 == RegisterNamespace(s1, identifier)
        r3 == RegisterSpawn(identifier, table)
    IN  IF r2.result.tag = "Err"
        THEN [storage |-> r2.storage, result |-> r2.result, incoming |-> {}]
        ELSE [storage |-> r2.storage, result |-> r3.result, incoming |-> r3.incoming]

(***************************************************************************)
(* deregister_table, in its three parts.                                   *)
(***************************************************************************)
\* lines 150-161: the entry is removed, then its kind is looked at
DeregisterRemove(st, identifier) ==
    LET key == IdentifierToString(identifier)
    IN  IF st[key] = Absent
        THEN [storage |-> st, result |-> Err(TableNotFound)]
        ELSE IF IsRelation(st[key])
        THEN [storage |-> StorageRemove(st, key), result |-> Ok(Some(st[key].table))]
        ELSE [storage |-> StorageRemove(st, key), result |-> Err(NotATable)]

\* a deregister_table that leaves the child set as it is
DeregisterNamespaceKeep(st, identifier) ==
    LET parent == NamespaceToString(identifier.namespace)
    IN  IF st[parent] = Absent
        THEN [storage |-> st, result |-> Err(NamespaceNotFound)]
        ELSE [storage |-> st, result |-> Ok(None)]

\* lines 162-174: get_mut on the parent, the name leaves its child set
DeregisterNamespace(st, identifier) ==
    LET parent == NamespaceToString(identifier.namespace)
    IN  IF st[parent] = Absent
        THEN [storage |-> st, result |-> Err(NamespaceNotFound)]
        ELSE IF IsNamespace(st[parent])
        THEN [storage |->
                 [st EXCEPT ![parent] =
                     NamespaceNode(@.names \ {IdentifierToString(identifier)})],
              result |-> Ok(None)]
        ELSE [storage |-> st, result |-> Ok(None)]

\* lines 175-183
DeregisterSpawn(identifier, table) ==
    [result |-> Ok(Some(table)), incoming |-> {DropTableCall(identifier)}]

DeregisterTableOutcome(st, identifier) ==
    LET r1 == DeregisterRemove(st, identifier)
        r2 == DeregisterNamespace(r1.storage, identifier)
    IN  IF r1.result.tag = "Err"
        THEN [storage |-> r1.storage, result |-> r1.result, incoming |-> {}]
        ELSE IF r2.result.tag = "Err"
        THEN [storage |-> r2.storage, result |-> r2.result, incoming |-> {}]
        ELSE LET r3 == DeregisterSpawn(identifier, r1.result.value.value)
             IN  [storage |-> r2.storage, result |-> r3.result, incoming |-> r3.incoming]

(***************************************************************************)
(* One thread: every call runs from entry to return.                       *)
(***************************************************************************)
Procs == 1..NumProcs

Idle == [p \in Procs |-> "idle"]

NoCall == [p \in Procs |-> [op |-> "none", identifier |-> None, table |-> None,
                            result |-> Ok(None)]]

NoPrev == [op |-> "none", identifier |-> None, table |-> None]

Called(l) == [op |-> l.op, identifier |-> l.identifier, table |-> l.table]

Init ==
    /\ \E catalog \in RemoteCatalogs :
          /\ storage = MirrorNew(catalog)
          /\ remoteCalls = MirrorNewCalls(catalog)
          /\ constructed = MirrorNew(catalog)
          /\ loader = LoaderReturned(catalog)
    /\ last = [op |-> "new", identifier |-> None, table |-> None,
               result |-> Ok(None), incoming |-> {}]
    /\ prev = NoPrev
    /\ pc = Idle
    /\ call = NoCall

\* the task's unwrap() on an Err (lines 141 and 180), in the thread that polls it
Panic == [tag |-> "Panic", value |-> "unwrap on Err"]

\* the caller waits for an answer that never comes
Blocked == [tag |-> "Blocked", value |-> "pending"]

\* What the caller gets when the tasks in polled are run inside its call and
\* the remote catalog answers them with response; with no task polled, the
\* result of the local half.
PoolOutcome(polled, response, result) ==
    IF polled = {} THEN result
    ELSE IF response = "err" THEN Panic
    ELSE IF response = "never" THEN Blocked
    ELSE result

RegisterTable(identifier, table) ==
    LET out == RegisterTableOutcome(storage, identifier, table)
    IN  /\ storage' = out.storage
        /\ remoteCalls' = remoteCalls \cup LocalPoolPolled(out.incoming)
        /\ last' = [op |-> "register_table", identifier |-> identifier, table |-> table,
                    result |-> out.result, incoming |-> out.incoming]
        /\ prev' = Called(last)
        /\ UNCHANGED <<constructed, loader, pc, call>>

DeregisterTable(identifier) ==
    LET out == DeregisterTableOutcome(storage, identifier)
    IN  /\ storage' = out.storage
        /\ remoteCalls' = remoteCalls \cup LocalPoolPolled(out.incoming)
        /\ last' = [op |-> "deregister_table", identifier |-> identifier, table |-> None,
                    result |-> out.result, incoming |-> out.incoming]
        /\ prev' = Called(last)
        /\ UNCHANGED <<constructed, loader, pc, call>>

Next ==
    \/ \E identifier \in IdentifierUniverse, table \in TableProviders :
          RegisterTable(identifier, table)
    \/ \E identifier \in IdentifierUniverse : DeregisterTable(identifier)

Spec == Init /\ [][Next]_vars

\* The callers keep calling: a call that can be made is made.  The mirror has
\* no step of its own besides its calls: a task spawned on a call's LocalPool
\* could only be polled inside that call.
FairSpec == Spec /\ WF_vars(Next)

(***************************************************************************)
(* The construction of the mirror.  No Mirror exists before Mirror::new    *)
(* returns Ok: storage and constructed are set at that return.             *)
(***************************************************************************)
NewInit ==
    /\ \E catalog \in AllCatalogs : loader = LoaderStart(catalog)
    /\ storage = EmptyStorage
    /\ constructed = EmptyStorage
    /\ remoteCalls = {}
    /\ last = [op |-> "none", identifier |-> None, table |-> None,
               result |-> Ok(None), incoming |-> {}]
    /\ prev = NoPrev
    /\ pc = Idle
    /\ call = NoCall

NewListNamespaces(response) ==
    /\ loader.pc = "list_namespaces"
    /\ loader' = NewOnListNamespaces(loader, response)
    /\ remoteCalls' = remoteCalls \cup {ListNamespacesCall}
    /\ UNCHANGED <<storage, constructed, last, prev, pc, call>>

NewListTables(response) ==
    /\ loader.pc = "list_tables"
    /\ loader' = NewOnListTables(loader, response)
    /\ remoteCalls' = remoteCalls \cup {ListTablesCall(loader.namespace)}
    /\ UNCHANGED <<storage, constructed, last, prev, pc, call>>

NewLoadTable(response) ==
    /\ loader.pc = "load_table"
    /\ loader' = NewOnLoadTable(loader, response)
    /\ remoteCalls' = remoteCalls \cup {LoadTableCall(Head(loader.tables))}
    /\ UNCHANGED <<storage, constructed, last, prev, pc, call>>

NewInsertNamespace ==
    /\ loader.pc = "insert_namespace"
    /\ loader' = NewOnInsertNamespace(loader)
    /\ UNCHANGED <<storage, constructed, remoteCalls, last, prev, pc, call>>

NewReturn ==
    /\ loader.pc = "return"
    /\ loader' = NewOnReturn(loader)
    /\ storage' = loader.storage
    /\ constructed' = loader.storage
    /\ last' = [last EXCEPT !.op = "new"]
    /\ UNCHANGED <<remoteCalls, prev, pc, call>>

NewNext ==
    \/ \E response \in Responses : NewListNamespaces(response)
    \/ \E response \in Responses : NewListTables(response)
    \/ \E response \in Responses : NewLoadTable(response)
    \/ NewInsertNamespace
    \/ NewReturn

NewSpec == NewInit /\ [][NewNext]_vars

\* Mirror::new is one future that its caller awaits: it takes its next step
\* whenever it can, and it can unless it awaits an answer that never comes.
NewFairSpec == NewSpec /\ WF_vars(NewNext)

(***************************************************************************)
(* Several threads, each making one call.  A step is one operation on the  *)
(* DashMap: insert, remove and the update under get_mut each hold the lock *)
(* of the key's shard from start to end.                                   *)
(***************************************************************************)
\* the handle thread p registers
ProcTable(p) == [kind |-> "DataFusionTable", location |-> ((p - 1) % NumLocations) + 1]

Return(p, result) ==
    /\ pc' = [pc EXCEPT ![p] = "done"]
    /\ call' = [call EXCEPT ![p].result = result]

\* lines 108-109
ConcRegisterInsert(p, identifier) ==
    /\ pc[p] = "idle"
    /\ storage' = RegisterInsert(storage, identifier, ProcTable(p))
    /\ call' = [call EXCEPT ![p] = [op |-> "register_table", identifier |-> identifier,
                                    table |-> ProcTable(p), result |-> Ok(None)]]
    /\ pc' = [pc EXCEPT ![p] = "register_namespace"]
    /\ UNCHANGED <<remoteCalls, last, prev, constructed, loader>>

\* lines 110-122
ConcRegisterNamespace(p) ==
    /\ pc[p] = "register_namespace"
    /\ LET r == RegisterNamespace(storage, call[p].identifier)
       IN  /\ storage' = r.storage
           /\ IF r.result.tag = "Err"
              THEN Return(p, r.result)
              ELSE /\ pc' = [pc EXCEPT ![p] = "register_spawn"]
                   /\ call' = call
    /\ UNCHANGED <<remoteCalls, last, prev, constructed, loader>>

\* lines 123-144, when the remote catalog would answer the spawned task with
\* response
ConcRegisterSpawnWith(p, response) ==
    /\ pc[p] = "register_spawn"
    /\ LET r == RegisterSpawn(call[p].identifier, call[p].table)
           polled == LocalPoolPolled(r.incoming)
       IN  /\ remoteCalls' = remoteCalls \cup polled
           /\ Return(p, PoolOutcome(polled, response, r.result))
    /\ UNCHANGED <<storage, last, prev, constructed, loader>>

ConcRegisterSpawn(p) ==
    \E response \in Responses : ConcRegisterSpawnWith(p, response)

\* lines 150-161
ConcDeregisterRemove(p, identifier) ==
    /\ pc[p] = "idle"
    /\ LET r == DeregisterRemove(storage, identifier)
       IN  /\ storage' = r.storage
           /\ IF r.result.tag = "Err"
              THEN /\ pc' = [pc EXCEPT ![p] = "done"]
                   /\ call' = [call EXCEPT ![p] =
                                  [op |-> "deregister_table", identifier |-> identifier,
                                   table |-> None, result |-> r.result]]
              ELSE /\ pc' = [pc EXCEPT ![p] = "deregister_namespace"]
                   /\ call' = [call EXCEPT ![p] =
                                  [op |-> "deregister_table", identifier |-> identifier,
                                   table |-> r.result.value.value, result |-> Ok(None)]]
    /\ UNCHANGED <<remoteCalls, last, prev, constructed, loader>>

\* lines 162-174
ConcDeregisterNamespace(p) ==
    /\ pc[p] = "deregister_namespace"
    /\ LET r == DeregisterNamespace(storage, call[p].identifier)
       IN  /\ storage' = r.storage
           /\ IF r.result.tag = "Err"
              THEN Return(p, r.result)
              ELSE /\ pc' = [pc EXCEPT ![p] = "deregister_spawn"]
                   /\ call' = call
    /\ UNCHANGED <<remoteCalls, last, prev, constructed, loader>>

\* lines 175-183, when the remote catalog would answer the spawned task with
\* response
ConcDeregisterSpawnWith(p, response) ==
    /\ pc[p] = "deregister_spawn"
    /\ LET r == DeregisterSpawn(call[p].identifier, call[p].table)
           polled == LocalPoolPolled(r.incoming)
       IN  /\ remoteCalls' = remoteCalls \cup polled
           /\ Return(p, PoolOutcome(polled, response, r.result))
    /\ UNCHANGED <<storage, last, prev, constructed, loader>>

ConcDeregisterSpawn(p) ==
    \E response \in Responses : ConcDeregisterSpawnWith(p, response)

\* a read that is one call on the DashMap (get, contains_key), from entry to
\* return
ConcRead(p, op, identifier, namespace, out) ==
    /\ pc[p] = "idle"
    /\ storage' = out.storage
    /\ remoteCalls' = remoteCalls \cup out.calls
    /\ pc' = [pc EXCEPT ![p] = "done"]
    /\ call' = [call EXCEPT ![p] = [op |-> op, identifier |-> identifier,
                                    namespace |-> namespace, table |-> None,
                                    result |-> out.result]]
    /\ UNCHANGED <<last, prev, constructed, loader>>

\* lines 55-72
ConcTableNames(p, namespace) ==
    ConcRead(p, "table_names", None, namespace, ReadTableNames(storage, namespace))

\* lines 74-75: schema_names creates the iterator; no lock is taken yet
ConcSchemaNames(p) ==
    /\ pc[p] = "idle"
    /\ pc' = [pc EXCEPT ![p] = "schema_names"]
    /\ call' = [call EXCEPT ![p] = [op |-> "schema_names", identifier |-> None,
                                    namespace |-> <<>>, table |-> None,
                                    result |-> Ok({}), visited |-> {}]]
    /\ UNCHANGED <<storage, remoteCalls, last, prev, constructed, loader>>

\* lines 76-91: the iterator reads the shard of key, which it has not visited
\* yet; after the last shard the collected namespaces are returned
ConcSchemaNamesShard(p, key) ==
    /\ pc[p] = "schema_names"
    /\ key \notin call[p].visited
    /\ LET out == ReadSchemaNamesShard(storage, key, call[p].result.value)
           visited == call[p].visited \cup {key}
       IN  /\ storage' = out.storage
           /\ remoteCalls' = remoteCalls \cup out.calls
           /\ call' = [call EXCEPT ![p].result = out.result, ![p].visited = visited]
           /\ pc' = [pc EXCEPT ![p] = IF visited = Keys THEN "done" ELSE "schema_names"]
    /\ UNCHANGED <<last, prev, constructed, loader>>

\* lines 92-99
ConcTable(p, identifier) ==
    ConcRead(p, "table", identifier, <<>>, ReadTable(storage, identifier))

\* lines 100-102
ConcTableExists(p, identifier) ==
    ConcRead(p, "table_exists", identifier, <<>>, ReadTableExists(storage, identifier))

ConcNext ==
    \E p \in Procs :
        \/ \E namespace \in NamespaceUniverse : ConcTableNames(p, namespace)
        \/ ConcSchemaNames(p)
        \/ \E key \in Keys : ConcSchemaNamesShard(p, key)
        \/ \E identifier \in IdentifierUniverse : ConcTable(p, identifier)
        \/ \E identifier \in IdentifierUniverse : ConcTableExists(p, identifier)
        \/ \E identifier \in IdentifierUniverse : ConcRegisterInsert(p, identifier)
        \/ ConcRegisterNamespace(p)
        \/ ConcRegisterSpawn(p)
        \/ \E identifier \in IdentifierUniverse : ConcDeregisterRemove(p, identifier)
        \/ ConcDeregisterNamespace(p)
        \/ ConcDeregisterSpawn(p)

ConcSpec == Init /\ [][ConcNext]_vars

(***************************************************************************)
(* Properties of the store under single-threaded use.                      *)
(***************************************************************************)
Key(identifier) == IdentifierToString(identifier)

ParentKey(identifier) == NamespaceToString(identifier.namespace)

Registered(l, identifier, table) ==
    /\ l.op = "register_table"
    /\ l.identifier = identifier
    /\ l.table = table

Deregistered(l, identifier) ==
    /\ l.op = "deregister_table"
    /\ l.identifier = identifier

\* C1: referential completeness: every key that maps to a Relation is in the
\* child set of the Namespace entry at its parent-namespace key.
C1_ReferentialCompleteness ==
    \A identifier \in IdentifierUniverse :
        IsRelation(storage[Key(identifier)]) =>
            /\ IsNamespace(storage[ParentKey(identifier)])
            /\ Key(identifier) \in storage[ParentKey(identifier)].names

\* C2: register_table under a parent key with no entry returns the
\* NamespaceNotFound error and leaves the store as it was.
C2_RegisterMissingNamespaceNoEffect ==
    [][\A identifier \in IdentifierUniverse, table \in TableProviders :
          (RegisterTable(identifier, table) /\ storage[ParentKey(identifier)] = Absent)
              => /\ last'.result = Err(NamespaceNotFound)
                 /\ storage' = storage]_vars

\* C3: remote propagation eventually happens: a register_table(N, H) that
\* returned success is eventually followed by the remote register_table(N,
\* metadata_location(H)), a deregister_table(N) that returned success by the
\* remote drop_table(N).
C3_RemotePropagation ==
    \A identifier \in IdentifierUniverse :
        /\ \A table \in DataFusionTables :
              (Registered(last, identifier, table) /\ last.result.tag = "Ok")
                  ~> (RegisterTableCall(identifier, MetadataLocation(table)) \in remoteCalls)
        /\ (Deregistered(last, identifier) /\ last.result.tag = "Ok")
              ~> (DropTableCall(identifier) \in remoteCalls)

\* C4: table_exists(N) is true exactly when N maps to a Relation (false on the
\* key of a Namespace), and it agrees with table(N) being non-empty.
C4_TableExistsIffRelation ==
    \A identifier \in IdentifierUniverse :
        /\ TableExists(storage, identifier) <=> IsRelation(storage[Key(identifier)])
        /\ TableExists(storage, identifier) <=> Table(storage, identifier).some

\* C5: register_table fails with NamespaceNotFound whenever the parent key does
\* not map to a Namespace entry, also when it maps to a Relation.
C5_RegisterNeedsNamespaceParent ==
    [][\A identifier \in IdentifierUniverse, table \in TableProviders :
          (RegisterTable(identifier, table) /\ ~IsNamespace(storage[ParentKey(identifier)]))
              => last'.result = Err(NamespaceNotFound)]_vars

\* C6: deregister_table(N) returns TableNotFound when N has no entry, NotATable
\* when N maps to a Namespace, and otherwise removes the Relation at N, takes N
\* out of the parent namespace's child set and returns the removed handle.
C6_DeregisterContract ==
    [][\A identifier \in IdentifierUniverse :
          DeregisterTable(identifier) =>
              LET node == storage[Key(identifier)]
              IN  /\ node = Absent => last'.result = Err(TableNotFound)
                  /\ IsNamespace(node) => last'.result = Err(NotATable)
                  /\ IsRelation(node) =>
                        /\ storage'[Key(identifier)] = Absent
                        /\ IsNamespace(storage'[ParentKey(identifier)]) =>
                              Key(identifier) \notin storage'[ParentKey(identifier)].names
                        /\ last'.result = Ok(Some(node.table))]_vars

\* C7: read-after-write: once register_table(N, H) has returned success,
\* table(N) is H and table_exists(N) is true, and they stay so over every call
\* that is not a register_table or deregister_table of N.
C7_ReadAfterWrite ==
    [][/\ \A identifier \in IdentifierUniverse, table \in TableProviders :
             (RegisterTable(identifier, table) /\ last'.result.tag = "Ok")
                 => /\ Table(storage', identifier) = Some(table)
                    /\ TableExists(storage', identifier)
       /\ \A identifier \in IdentifierUniverse :
             (last'.identifier # identifier /\ Table(storage, identifier).some)
                 => /\ Table(storage', identifier) = Table(storage, identifier)
                    /\ TableExists(storage', identifier)]_vars

\* a successful register_table(N, H) over an entry with another handle, then a
\* call on another identifier; N still holds H
C7_Witness ==
    \E identifier \in IdentifierUniverse, table \in DataFusionTables :
        /\ Registered(prev, identifier, table)
        /\ table # LoadTable(identifier)
        /\ last.identifier # identifier
        /\ Table(storage, identifier) = Some(table)
        /\ IsNamespace(storage[ParentKey(identifier)])

\* C8: symmetric removal: deregister_table(N) right after a successful
\* register_table(N, H) under an existing namespace returns H; afterwards
\* table(N) is empty, table_exists(N) is false and table_names of the parent
\* namespace does not list N.
C8_SymmetricRemoval ==
    [][\A identifier \in IdentifierUniverse, table \in TableProviders :
          ( /\ Registered(last, identifier, table)
            /\ last.result.tag = "Ok"
            /\ IsNamespace(storage[ParentKey(identifier)])
            /\ DeregisterTable(identifier) )
              => /\ last'.result = Ok(Some(table))
                 /\ Table(storage', identifier) = None
                 /\ ~TableExists(storage', identifier)
                 /\ TableNames(storage', identifier.namespace).tag = "Ok"
                 /\ identifier \notin TableNames(storage', identifier.namespace).value]_vars

\* register_table(N, H) succeeded under a namespace and deregister_table(N)
\* has returned
C8_Witness ==
    \E identifier \in IdentifierUniverse, table \in DataFusionTables :
        /\ Registered(prev, identifier, table)
        /\ Deregistered(last, identifier)
        /\ last.result = Ok(Some(table))
        /\ IsNamespace(storage[ParentKey(identifier)])

\* C9: idempotent overwrite: register_table(N, H1) then register_table(N, H2)
\* under a present namespace leaves the Relation at N holding H2, and
\* table_names of the parent has as many identifiers after the second
\* registration as after the first; that the name is already in the child set
\* is no error.
C9_IdempotentOverwrite ==
    [][\A identifier \in IdentifierUniverse, table1, table2 \in TableProviders :
          ( /\ Registered(last, identifier, table1)
            /\ IsNamespace(storage[ParentKey(identifier)])
            /\ RegisterTable(identifier, table2) )
              => /\ storage'[Key(identifier)] = RelationNode(table2)
                 /\ IsDataFusionTable(table2) => last'.result = Ok(Some(table2))
                 /\ TableNames(storage', identifier.namespace).tag = "Ok"
                 /\ Cardinality(TableNames(storage', identifier.namespace).value)
                       = Cardinality(TableNames(storage, identifier.namespace).value)
                 /\ storage'[ParentKey(identifier)] = storage[ParentKey(identifier)]]_vars

\* the same identifier registered twice with different handles, next to
\* another table of the same namespace
C9_Witness ==
    \E identifier \in IdentifierUniverse, table1, table2 \in DataFusionTables :
        /\ table1 # table2
        /\ Registered(prev, identifier, table1)
        /\ Registered(last, identifier, table2)
        /\ last.result = Ok(Some(table2))
        /\ IsNamespace(storage[ParentKey(identifier)])
        /\ Cardinality(storage[ParentKey(identifier)].names) = 2

(***************************************************************************)
(* Properties of the store under concurrent calls.                         *)
(***************************************************************************)
AllDone == \A p \in Procs : pc[p] = "done"

\* every thread registered a table of the namespace, each another one
RegisteredDistinctUnder(namespace) ==
    /\ \A p \in Procs :
          /\ call[p].op = "register_table"
          /\ call[p].identifier.namespace = namespace
    /\ \A p, q \in Procs : p # q => call[p].identifier # call[q].identifier

\* C10: concurrent registration: when every thread registers another
\* identifier under the same namespace, which the constructed mirror has, then
\* once all calls have returned table_names of the namespace is what it was
\* after construction plus exactly the registered identifiers: none is lost.
C10_ConcurrentRegistration ==
    \A namespace \in NamespaceUniverse :
        ( /\ AllDone
          /\ RegisteredDistinctUnder(namespace)
          /\ IsNamespace(constructed[NamespaceToString(namespace)]) )
            => /\ TableNames(storage, namespace) =
                     Ok(TableNames(constructed, namespace).value
                            \cup { call[p].identifier : p \in Procs })
               /\ TableNames(constructed, namespace).value = {} =>
                     Cardinality(TableNames(storage, namespace).value) = NumProcs

\* all threads have registered distinct tables under a namespace that was empty
C10_Witness ==
    \E namespace \in NamespaceUniverse :
        /\ AllDone
        /\ RegisteredDistinctUnder(namespace)
        /\ constructed[NamespaceToString(namespace)] = NamespaceNode({})
        /\ \A p \in Procs : call[p].result = Ok(Some(ProcTable(p)))

(***************************************************************************)
(* Properties of the construction.                                         *)
(***************************************************************************)
MirrorReturned == loader.result = Ok(Some("Mirror"))

\* the identifiers list_tables returns for a namespace
Listed(catalog, namespace) ==
    { catalog.tables[namespace][j] : j \in 1..Len(catalog.tables[namespace]) }

ListedNamespaces(catalog) ==
    { catalog.namespaces[i] : i \in 1..Len(catalog.namespaces) }

\* C12: all-or-nothing construction: a failed remote call makes Mirror::new
\* return an error, with no Mirror; a Mirror is returned only after every call
\* of the walk was made and none failed, and before that none is served.
C12_AllOrNothing ==
    /\ loader.failed # {} =>
          /\ loader.pc = "returned"
          /\ loader.result = Err(CatalogError)
    /\ ~MirrorReturned =>
          /\ storage = EmptyStorage
          /\ constructed = EmptyStorage
    /\ MirrorReturned =>
          /\ loader.failed = {}
          /\ remoteCalls = MirrorNewCalls(loader.catalog)
          /\ storage = MirrorNew(loader.catalog)

\* load_table failed after another table had been loaded and inserted
C12_Witness ==
    /\ loader.pc = "returned"
    /\ \E identifier \in IdentifierUniverse : loader.failed = {LoadTableCall(identifier)}
    /\ \E identifier \in IdentifierUniverse :
          /\ LoadTableCall(identifier) \in remoteCalls
          /\ LoadTableCall(identifier) \notin loader.failed
    /\ loader.result = Err(CatalogError)

SnapshotOf(catalog, st) ==
    \A namespace \in ListedNamespaces(catalog) :
        /\ st[NamespaceToString(namespace)] =
              NamespaceNode({ IdentifierToString(i) : i \in Listed(catalog, namespace) })
        /\ \A identifier \in Listed(catalog, namespace) :
              st[IdentifierToString(identifier)] = RelationNode(LoadTable(identifier))

\* no listed namespace has the key of a listed table
NoKeyCollision(catalog) ==
    \A n1, n2 \in ListedNamespaces(catalog) :
        \A identifier \in Listed(catalog, n2) :
            NamespaceToString(n1) # IdentifierToString(identifier)

\* C13 as stated: after Mirror::new succeeds, for every remote catalog content,
\* every listed namespace has a Namespace entry whose child set is what
\* list_tables returned for it, and each of these identifiers maps to a
\* Relation with the loaded handle.
C13_SnapshotContentAnyCatalog ==
    MirrorReturned => SnapshotOf(loader.catalog, storage)

\* C13, amended: the same for every remote catalog content in which no listed
\* namespace's key equals a listed table's key.
C13_SnapshotContent ==
    (MirrorReturned /\ NoKeyCollision(loader.catalog))
        => SnapshotOf(loader.catalog, storage)

\* a mirror built from two namespaces with tables in both
C13_Witness ==
    /\ MirrorReturned
    /\ NoKeyCollision(loader.catalog)
    /\ Len(loader.catalog.namespaces) = 2
    /\ \A namespace \in ListedNamespaces(loader.catalog) :
          Listed(loader.catalog, namespace) # {}
    /\ storage = MirrorNew(loader.catalog)

\* C16: construction terminates: Mirror::new eventually returns, a Mirror or
\* an error, also when one of its remote calls never answers.
C16_ConstructionTerminates == <>(loader.pc = "returned")

(***************************************************************************)
(* Properties of calls that overlap.                                       *)
(***************************************************************************)
InProgress(p) ==
    pc[p] \in {"register_namespace", "register_spawn",
               "deregister_namespace", "deregister_spawn"}

\* N is in its parent namespace's child set exactly if N maps to a Relation
TwoKeysAgree(st, identifier) ==
    IsRelation(st[Key(identifier)]) <=> Key(identifier) \in st[ParentKey(identifier)].names

\* C11: two-key atomicity for readers: while register_table(N, H) or
\* deregister_table(N) is in progress under a namespace, the store never shows
\* N as a Relation that its parent's child set lacks, nor N in the child set
\* with no Relation at N.
C11_TwoKeyAtomicity ==
    \A p \in Procs :
        (InProgress(p) /\ IsNamespace(storage[ParentKey(call[p].identifier)]))
            => TwoKeysAgree(storage, call[p].identifier)

ReadOps == {"table_names", "schema_names", "table", "table_exists"}

\* thread p takes a step of a read
ReadBy(p) ==
    /\ pc[p] \in {"idle", "schema_names"}
    /\ pc'[p] \in {"done", "schema_names"}
    /\ call'[p].op \in ReadOps
    /\ call'[p] # call[p]

\* what the schema_names of thread p has collected and visited before a step
CollectedBy(p) ==
    IF pc[p] = "schema_names" THEN call[p] ELSE [result |-> Ok({}), visited |-> {}]

\* C17: the reads are pure: every step of a read leaves the store as it is,
\* makes no call on the remote catalog, and takes what it returns from the
\* store as it is at that step, whatever the other threads are in the middle
\* of.
C17_ReadsArePure ==
    [][\A p \in Procs :
          ReadBy(p) =>
              /\ storage' = storage
              /\ remoteCalls' = remoteCalls
              /\ call'[p].op = "table_names" =>
                    call'[p].result = TableNames(storage, call'[p].namespace)
              /\ call'[p].op = "schema_names" =>
                    call'[p].result =
                        Ok(CollectedBy(p).result.value
                             \cup SchemaNamesIn(storage, call'[p].visited
                                                           \ CollectedBy(p).visited))
              /\ call'[p].op = "table" =>
                    call'[p].result = Table(storage, call'[p].identifier)
              /\ call'[p].op = "table_exists" =>
                    call'[p].result = TableExists(storage, call'[p].identifier)]_vars

\* table(N) found nothing at N while another thread was inside a
\* register_table, and the store still has nothing at N
C17_Witness ==
    \E p, q \in Procs, identifier \in IdentifierUniverse :
        /\ p # q
        /\ pc[p] = "done"
        /\ call[p].op = "table"
        /\ call[p].identifier = identifier
        /\ call[p].result = None
        /\ storage[Key(identifier)] = Absent
        /\ pc[q] = "register_namespace"

\* C20: register_table(N, H) and deregister_table(N) run concurrently under a
\* namespace: once both have returned, N is in the namespace's child set
\* exactly if N maps to a Relation.
C20_RegisterDeregisterSameName ==
    \A p, q \in Procs :
        ( /\ AllDone
          /\ call[p].op = "register_table"
          /\ call[q].op = "deregister_table"
          /\ call[p].identifier = call[q].identifier
          /\ IsNamespace(constructed[ParentKey(call[p].identifier)]) )
            => /\ IsNamespace(storage[ParentKey(call[p].identifier)])
               /\ TwoKeysAgree(storage, call[p].identifier)

(***************************************************************************)
(* Further properties of the store under single-threaded use.              *)
(***************************************************************************)
\* C14: table_names(NS) returns NamespaceNotFound when NS has no entry,
\* NotANamespace when NS maps to a Relation, and otherwise the children that
\* are relations: every identifier it returns maps to a Relation.
C14_TableNamesAreRelations ==
    \A namespace \in NamespaceUniverse :
        LET node == storage[NamespaceToString(namespace)]
            names == TableNames(storage, namespace)
        IN  /\ node = Absent => names = Err(NamespaceNotFoundOnList)
            /\ IsRelation(node) => names = Err(NotANamespace)
            /\ IsNamespace(node) =>
                  /\ names.tag = "Ok"
                  /\ \A identifier \in names.value : IsRelation(storage[Key(identifier)])

\* C15: fire-and-forget isolation: whatever the remote catalog answers to the
\* dispatched call (a value, an error, nothing), register_table and
\* deregister_table return the result of their local half and the store
\* keeps what the local half did: no panic, no waiting, no rollback.
C15_FireAndForget ==
    [][\A p \in Procs, response \in Responses :
          /\ ConcRegisterSpawnWith(p, response) =>
                /\ call'[p].result =
                      RegisterSpawn(call[p].identifier, call[p].table).result
                /\ storage' = storage
                /\ pc'[p] = "done"
          /\ ConcDeregisterSpawnWith(p, response) =>
                /\ call'[p].result =
                      DeregisterSpawn(call[p].identifier, call[p].table).result
                /\ storage' = storage
                /\ pc'[p] = "done"]_vars

\* a register_table returned Ok with its remote call dispatched and not made
C15_Witness ==
    \E p \in Procs :
        /\ pc[p] = "done"
        /\ call[p].op = "register_table"
        /\ call[p].result = Ok(Some(call[p].table))
        /\ RegisterTableCall(call[p].identifier, MetadataLocation(call[p].table))
               \notin remoteCalls

\* C18: failed mutations have no effect: when register_table or
\* deregister_table returns an error, the store is as it was before the call.
C18_FailedMutationNoEffect ==
    [][\A identifier \in IdentifierUniverse :
          ( \/ \E table \in TableProviders : RegisterTable(identifier, table)
            \/ DeregisterTable(identifier) )
              => (last'.result.tag = "Err" => storage' = storage)]_vars

\* C19: namespaces are stable under table mutations: schema_names() returns
\* exactly the namespaces the constructed mirror had.
C19_NamespacesStable == SchemaNames(storage) = SchemaNames(constructed)

====
